---- MODULE Spec2Model ----
(***************************************************************************)
(* Leaderboard API (src/server/main.py, src/server/auth.py): the users and *)
(* submissions tables, the session tokens issued by /api/auth/github, and  *)
(* the request handlers, as a state machine.                               *)
(*                                                                         *)
(* Python None / SQL NULL / a JSON field that is absent is the empty set,  *)
(* a present optional value v is {v}.                                      *)
(***************************************************************************)
EXTENDS Integers, Sequences, FiniteSets, TLC

None == {}
Some(v) == {v}
TheValue(o) == CHOOSE v \in o : TRUE

(***************************************************************************)
(* Bounds of the model.                                                    *)
(***************************************************************************)
\* rows the submissions table may hold before submit is no longer explored
MaxSubmissions == 2
\* session tokens issued before the auth exchange of several workers is no
\* longer explored
MaxTokens == 3

(***************************************************************************)
(* src/server/auth.py: configuration.                                      *)
(***************************************************************************)
SECRET_KEY == "your-secret-key-change-in-production"
ALGORITHM == "HS256"
ACCESS_TOKEN_EXPIRE_MINUTES == 60 * 24 * 7
\* timedelta(minutes=ACCESS_TOKEN_EXPIRE_MINUTES) in seconds, the unit of the
\* clock and of the JWT exp claim (a NumericDate)
ExpireSeconds == ACCESS_TOKEN_EXPIRE_MINUTES * 60

(***************************************************************************)
(* The clock.  datetime.now() / datetime.utcnow() read it; it advances     *)
(* between requests, not necessarily between two of them.  The instants    *)
(* explored are the start and the expiry of a token issued at the start.   *)
(***************************************************************************)
Times == {0, ExpireSeconds}

(***************************************************************************)
(* The identity provider.  A GitHub token is answered with a user object   *)
(* (status 200), with another status, or the call raises (network).        *)
(* GithubAccounts: what GET /user may answer for each credential; the      *)
(* account 101 has been renamed between two logins.                        *)
(***************************************************************************)
GithubTokens == {"gho_alice", "gho_bob", "gho_revoked"}

GithubUserData ==
  { [token |-> "gho_alice",
     data |-> [id |-> 101, login |-> "alice", name |-> Some("Alice"),
               email |-> None, avatar_url |-> Some("a1.png")]],
    [token |-> "gho_alice",
     data |-> [id |-> 101, login |-> "alice-dev", name |-> None,
               email |-> Some("alice@example.org"), avatar_url |-> Some("a2.png")]],
    [token |-> "gho_bob",
     data |-> [id |-> 202, login |-> "bob", name |-> Some("Bob"),
               email |-> None, avatar_url |-> None]] }

\* the outcomes of `await client.get("https://api.github.com/user")`
GithubResponses(github_token) ==
  { [kind |-> "response", status_code |-> 200, json |-> Some(u.data)] :
      u \in {x \in GithubUserData : x.token = github_token} }
  \cup (IF \E x \in GithubUserData : x.token = github_token THEN {}
        ELSE {[kind |-> "response", status_code |-> 401, json |-> None]})
  \cup {[kind |-> "raised", status_code |-> 0, json |-> None]}

\* str(user_data["id"])
str(n) == ToString(n)

\* str(e) of the exception the transport raises when api.github.com cannot
\* be reached: the message of the failure underneath
ConnectErrorMessage == "All connection attempts failed"

\* verify_github_token without the check of response.status_code: the
\* body of an error response has no "id"
Mut_verify_github_token(answer) ==
  IF answer.kind = "raised"
    THEN [raised |-> "httpx.ConnectError", status |-> 0,
          detail |-> ConnectErrorMessage, user_info |-> None]
  ELSE IF answer.status_code # 200
    THEN [raised |-> "KeyError", status |-> 0, detail |-> "'id'", user_info |-> None]
  ELSE LET user_data == TheValue(answer.json) IN
       [raised |-> "", status |-> 200, detail |-> "",
        user_info |-> Some([provider |-> "github",
                            provider_id |-> str(user_data.id),
                            username |-> user_data.login,
                            name |-> user_data.name,
                            email |-> user_data.email,
                            avatar_url |-> user_data.avatar_url])]

\* verify_github_token, given the provider's answer: the normalized identity,
\* or the HTTPException(401), or the exception of the transport
verify_github_token(answer) ==
  IF answer.kind = "raised"
    THEN [raised |-> "httpx.ConnectError", status |-> 0,
          detail |-> ConnectErrorMessage, user_info |-> None]
  ELSE IF answer.status_code # 200
    THEN [raised |-> "HTTPException", status |-> 401,
          detail |-> "Invalid GitHub token", user_info |-> None]
  ELSE LET user_data == TheValue(answer.json) IN
       [raised |-> "", status |-> 200, detail |-> "",
        user_info |-> Some([provider |-> "github",
                            provider_id |-> str(user_data.id),
                            username |-> user_data.login,
                            name |-> user_data.name,
                            email |-> user_data.email,
                            avatar_url |-> user_data.avatar_url])]

(***************************************************************************)
(* Session tokens (JWT, HS256).  A token is its payload and its signature; *)
(* the signature is the MAC of the payload under a key, kept symbolic: it  *)
(* verifies iff it was made with the verifier's key over this payload.     *)
(* A string that is no JWT has neither.                                    *)
(***************************************************************************)
Sign(key, payload) == [key |-> key, over |-> payload]

\* jwt.encode(to_encode, SECRET_KEY, algorithm=ALGORITHM)
jwt_encode(payload, key) == [payload |-> Some(payload), sig |-> Some(Sign(key, payload))]

\* create_access_token(data): data plus exp = utcnow() + 7 days
create_access_token(data, utcnow) ==
  LET expire == utcnow + ExpireSeconds
      to_encode == [user_id |-> data.user_id, username |-> data.username,
                    provider |-> data.provider, exp |-> expire]
  IN jwt_encode(to_encode, SECRET_KEY)

\* jwt_decode with the signature left unverified
Mut_jwt_decode_unverified(token, key, utcnow) ==
  IF token.payload = None
    THEN [raised |-> "DecodeError", payload |-> None]
  ELSE IF TheValue(token.payload).exp <= utcnow
    THEN [raised |-> "ExpiredSignatureError", payload |-> None]
  ELSE [raised |-> "", payload |-> token.payload]

\* jwt_decode with a token still accepted at the instant of its expiry
Mut_jwt_decode_late(token, key, utcnow) ==
  IF token.payload = None
    THEN [raised |-> "DecodeError", payload |-> None]
  ELSE IF token.sig # Some(Sign(key, TheValue(token.payload)))
    THEN [raised |-> "InvalidSignatureError", payload |-> None]
  ELSE IF TheValue(token.payload).exp < utcnow
    THEN [raised |-> "ExpiredSignatureError", payload |-> None]
  ELSE [raised |-> "", payload |-> token.payload]

\* jwt.decode(token, key, algorithms=[ALGORITHM]): the payload, or the
\* exception raised.  The segments are parsed, then the signature is
\* verified, then exp is validated (expired when exp <= now).
jwt_decode(token, key, utcnow) ==
  IF token.payload = None
    THEN [raised |-> "DecodeError", payload |-> None]
  ELSE IF token.sig # Some(Sign(key, TheValue(token.payload)))
    THEN [raised |-> "InvalidSignatureError", payload |-> None]
  ELSE IF TheValue(token.payload).exp <= utcnow
    THEN [raised |-> "ExpiredSignatureError", payload |-> None]
  ELSE [raised |-> "", payload |-> token.payload]

\* the names the module bound by `import jwt` has; an except clause naming
\* another one raises AttributeError when it is evaluated
JwtModuleNames ==
  {"encode", "decode", "PyJWTError", "InvalidTokenError", "DecodeError",
   "InvalidSignatureError", "ExpiredSignatureError"}

\* the classes an `except jwt.<name>` clause catches
JwtCaughtBy(name) ==
  CASE name = "ExpiredSignatureError" -> {"ExpiredSignatureError"}
    [] name = "InvalidSignatureError" -> {"InvalidSignatureError"}
    [] name = "DecodeError" -> {"DecodeError", "InvalidSignatureError"}
    [] name \in {"InvalidTokenError", "PyJWTError"} ->
         {"DecodeError", "InvalidSignatureError", "ExpiredSignatureError"}
    [] OTHER -> {}

\* HTTPBearer() with no Authorization header: HTTPException "Not
\* authenticated", 403 or 401 according to the FastAPI release
HTTPBearerStatuses == {401, 403}

\* what a request ends with when an exception other than HTTPException
\* leaves the handler or a dependency: the server's 500
InternalServerError == [status |-> 500, detail |-> "Internal Server Error", payload |-> None]

\* verify_token with `except jwt.JWTError` written before
\* `except jwt.ExpiredSignatureError`
Mut_verify_token_order(token, utcnow) ==
  LET got == jwt_decode(token, SECRET_KEY, utcnow) IN
  IF got.raised = ""
    THEN [status |-> 200, detail |-> "", payload |-> got.payload]
  ELSE IF "JWTError" \notin JwtModuleNames
    THEN InternalServerError
  ELSE IF got.raised \in JwtCaughtBy("JWTError")
    THEN [status |-> 401, detail |-> "Invalid token", payload |-> None]
  ELSE IF got.raised \in JwtCaughtBy("ExpiredSignatureError")
    THEN [status |-> 401, detail |-> "Token has expired", payload |-> None]
  ELSE InternalServerError

\* verify_token: jwt.decode of credentials.credentials, the payload on
\* success.  ExpiredSignatureError is caught first; any other exception
\* reaches `except jwt.JWTError`.
verify_token(token, utcnow) ==
  LET got == jwt_decode(token, SECRET_KEY, utcnow) IN
  IF got.raised = ""
    THEN [status |-> 200, detail |-> "", payload |-> got.payload]
  ELSE IF got.raised \in JwtCaughtBy("ExpiredSignatureError")
    THEN [status |-> 401, detail |-> "Token has expired", payload |-> None]
  ELSE IF "JWTError" \notin JwtModuleNames
    THEN InternalServerError
  ELSE IF got.raised \in JwtCaughtBy("JWTError")
    THEN [status |-> 401, detail |-> "Invalid token", payload |-> None]
  ELSE InternalServerError

\* Depends(verify_token) with Security(security): what the dependency of
\* submit_kernel and mark_evaluated may yield for the bearer credentials of a
\* request, None when it has no Authorization header
Authenticate(credentials, utcnow) ==
  IF credentials = None
    THEN {[status |-> c, detail |-> "Not authenticated", payload |-> None] :
            c \in HTTPBearerStatuses}
    ELSE {verify_token(TheValue(credentials), utcnow)}

(***************************************************************************)
(* The requests explored.                                                  *)
(***************************************************************************)
Workers == {"w1", "w2"}

\* KernelSubmission as JSON: a field is absent/null (None) or a string,
\* possibly the empty one
GoodBody ==
  [operation |-> Some("add"), overload |-> None, dsl |-> Some("cutedsl"),
   device |-> Some("A100"), file_name |-> Some("add_v1.py"),
   file_content |-> Some("def add(a, b): ...")]

RequiredFields == {"operation", "dsl", "device", "file_name", "file_content"}

\* a body with one required field absent, a body with one present but empty
MissingBodies == {[GoodBody EXCEPT ![f] = None] : f \in RequiredFields}
EmptyBodies == {[GoodBody EXCEPT ![f] = Some("")] : f \in RequiredFields}

Bodies == {GoodBody, [GoodBody EXCEPT !.file_content = None]}

Results == {None, Some("pass")}

(***************************************************************************)
(* State.                                                                  *)
(*   users, submissions  the two tables of submissions.db, as sets of rows *)
(*   sqlite_sequence     the AUTOINCREMENT counters of the two tables      *)
(*   now                 the clock                                         *)
(*   sessions            the successful auth exchanges so far: the         *)
(*                       identity verified and the response sent           *)
(*   pc, frame           per worker: where it is in auth_github and the    *)
(*                       locals user_info, existing_user of that call      *)
(*   last                the response of the request completed last        *)
(*   probe               a bearer credential under test, with the outcome  *)
(*                       of its latest verification by verify_token and    *)
(*                       the instant it was first refused as expired       *)
(*   CONFIG_FILE         the client's ~/.leaderboard/config.json: None     *)
(*                       while the file does not exist, else its text      *)
(***************************************************************************)
VARIABLES users, submissions, sqlite_sequence, now, sessions, pc, frame, last, probe,
          CONFIG_FILE

vars == <<users, submissions, sqlite_sequence, now, sessions, pc, frame, last, probe, CONFIG_FILE>>

NoFrame == [github_token |-> "", user_info |-> None, existing_user |-> None]

\* the response of a completed request; body is None unless the status is 200.
\* before is not part of the response: after a successful evaluate call it is
\* what the row held when the UPDATE reached it, None after any other request.
Completed(op, request, status, detail, body) ==
  [op |-> op, status |-> status, detail |-> detail, body |-> body, before |-> None]

NoProbe ==
  [credentials |-> None, issued_at |-> None, outcome |-> None, at |-> None,
   expired_at |-> None]

\* init_db() on an empty submissions.db
InitDb ==
  /\ users = {}
  /\ submissions = {}
  /\ sqlite_sequence = [users |-> 0, submissions |-> 0]
  /\ now = 0
  /\ sessions = {}
  /\ pc = [w \in Workers |-> "idle"]
  /\ frame = [w \in Workers |-> NoFrame]
  /\ last = Completed("startup", None, 0, "", None)
  /\ CONFIG_FILE = None

Init ==
  /\ InitDb
  /\ probe = NoProbe

\* time passes: the clock moves to a later instant of `instants`
Tick(instants) ==
  /\ \E t \in instants : t > now /\ now' = t
  /\ UNCHANGED <<users, submissions, sqlite_sequence, sessions, pc, frame, last, probe, CONFIG_FILE>>

(***************************************************************************)
(* POST /api/auth/github                                                   *)
(***************************************************************************)
\* the users table created without its UNIQUE constraint
Mut_UsersUniqueOk(table, provider, provider_id) == TRUE

\* UNIQUE(provider, provider_id) of the users table: may this row be added
UsersUniqueOk(table, provider, provider_id) ==
  ~ \E u \in table : u.provider = provider /\ u.provider_id = provider_id

\* SELECT id FROM users WHERE provider = ? AND provider_id = ?; fetchone()
SelectUserId(table, provider, provider_id) ==
  LET found == {u \in table : u.provider = provider /\ u.provider_id = provider_id}
  IN IF found = {} THEN None ELSE Some((CHOOSE u \in found : TRUE).id)

\* the row replaced instead of updated (INSERT OR REPLACE): it gets a new rowid
Mut_UpdateUser(table, user_info, user_id) ==
  { IF u.id = user_id
      THEN [u EXCEPT !.id = Cardinality(table) + 1,
                     !.username = user_info.username, !.name = user_info.name,
                     !.email = user_info.email, !.avatar_url = user_info.avatar_url]
      ELSE u : u \in table }

\* the UPDATE without its WHERE clause
Mut_UpdateUser_all(table, user_info, user_id) ==
  { [u EXCEPT !.username = user_info.username, !.name = user_info.name,
              !.email = user_info.email, !.avatar_url = user_info.avatar_url] :
      u \in table }

\* UPDATE users SET username = ?, name = ?, email = ?, avatar_url = ? WHERE id = ?
UpdateUser(table, user_info, user_id) ==
  { IF u.id = user_id
      THEN [u EXCEPT !.username = user_info.username, !.name = user_info.name,
                     !.email = user_info.email, !.avatar_url = user_info.avatar_url]
      ELSE u : u \in table }

\* the row of INSERT INTO users (...) VALUES (...), id from AUTOINCREMENT
NewUserRow(user_info, rowid, created_at) ==
  [id |-> rowid, provider |-> user_info.provider, provider_id |-> user_info.provider_id,
   username |-> user_info.username, name |-> user_info.name, email |-> user_info.email,
   avatar_url |-> user_info.avatar_url, created_at |-> created_at]

\* the response of a successful exchange
AuthResponse(access_token, user_id, user_info) ==
  [access_token |-> access_token, token_type |-> "bearer",
   user |-> [id |-> user_id, username |-> user_info.username, name |-> user_info.name]]

\* auth_github when verify_github_token raised: HTTPException is re-raised,
\* any other exception e becomes HTTPException(500, detail=str(e)); got.detail
\* is str(e)
AuthRaised(github_token, got) ==
  last' = IF got.raised = "HTTPException"
            THEN Completed("auth", [github_token |-> github_token],
                           got.status, got.detail, None)
            ELSE Completed("auth", [github_token |-> github_token],
                           500, got.detail, None)

\* auth_github from `if existing_user:` to the response: UPDATE or INSERT,
\* commit, create_access_token.  An INSERT that breaks UNIQUE(provider,
\* provider_id) raises sqlite3.IntegrityError, caught by `except Exception`.
AuthWrite(github_token, user_info, existing_user) ==
  LET rowid == sqlite_sequence.users + 1
      user_id == IF existing_user # None THEN TheValue(existing_user) ELSE rowid
      access_token == create_access_token(
                        [user_id |-> user_id, username |-> user_info.username,
                         provider |-> user_info.provider], now)
  IN
  IF existing_user = None
     /\ ~ UsersUniqueOk(users, user_info.provider, user_info.provider_id)
    THEN /\ last' = Completed("auth", [github_token |-> github_token], 500,
              "UNIQUE constraint failed: users.provider, users.provider_id", None)
         /\ UNCHANGED <<users, sqlite_sequence, sessions>>
    ELSE /\ users' = IF existing_user # None
                       THEN UpdateUser(users, user_info, user_id)
                       ELSE users \cup {NewUserRow(user_info, rowid, now)}
         /\ sqlite_sequence' = IF existing_user # None THEN sqlite_sequence
                               ELSE [sqlite_sequence EXCEPT !.users = rowid]
         /\ sessions' = sessions \cup
              {[provider |-> user_info.provider, provider_id |-> user_info.provider_id,
                response |-> AuthResponse(access_token, user_id, user_info)]}
         /\ last' = Completed("auth", [github_token |-> github_token], 200, "",
                               Some(AuthResponse(access_token, user_id, user_info)))

\* auth_github in a server of one process: after `await verify_github_token`
\* the handler has no await, so SELECT, UPDATE/INSERT and commit run without
\* another request in between.  Each identity is taken through one
\* successful exchange here; repeated and concurrent exchanges of one
\* identity are those of AuthBegin and AuthFinish.
AuthGithub(github_token, answer) ==
  /\ \A s \in sessions :
       answer.json # None => s.provider_id # str(TheValue(answer.json).id)
  /\ LET got == verify_github_token(answer) IN
     IF got.raised # ""
       THEN /\ AuthRaised(github_token, got)
            /\ UNCHANGED <<users, sqlite_sequence, sessions>>
       ELSE LET user_info == TheValue(got.user_info) IN
            AuthWrite(github_token, user_info,
                      SelectUserId(users, user_info.provider, user_info.provider_id))
  /\ UNCHANGED <<submissions, now, pc, frame, probe, CONFIG_FILE>>

\* auth_github in one of several worker processes, up to and including the
\* SELECT: the provider is asked, and on an identity the users table is read
AuthBegin(w, github_token, answer) ==
  /\ pc[w] = "idle"
  /\ Cardinality(sessions) + Cardinality({v \in Workers : pc[v] # "idle"}) < MaxTokens
  /\ LET got == verify_github_token(answer) IN
     IF got.raised # ""
       THEN /\ AuthRaised(github_token, got)
            /\ UNCHANGED <<pc, frame>>
       ELSE LET user_info == TheValue(got.user_info) IN
            /\ frame' = [frame EXCEPT ![w] =
                 [github_token |-> github_token, user_info |-> got.user_info,
                  existing_user |-> SelectUserId(users, user_info.provider,
                                                 user_info.provider_id)]]
            /\ pc' = [pc EXCEPT ![w] = "auth_write"]
            /\ UNCHANGED last
  /\ UNCHANGED <<users, submissions, sqlite_sequence, now, sessions, probe, CONFIG_FILE>>

\* ... and from there to the response, in the same worker
AuthFinish(w) ==
  /\ pc[w] = "auth_write"
  /\ pc' = [pc EXCEPT ![w] = "idle"]
  /\ frame' = [frame EXCEPT ![w] = NoFrame]
  /\ AuthWrite(frame[w].github_token, TheValue(frame[w].user_info),
               frame[w].existing_user)
  /\ UNCHANGED <<submissions, now, probe, CONFIG_FILE>>

(***************************************************************************)
(* The bearer credentials a client may present: none, a token some         *)
(* exchange has issued, such a token with its payload altered (another     *)
(* user id, a later expiry) under the old signature, or a string that is   *)
(* no JWT.                                                                 *)
(***************************************************************************)
NotAJwt == [payload |-> None, sig |-> None]

Tampered(token) ==
  LET p == TheValue(token.payload) IN
  [token EXCEPT !.payload = Some([p EXCEPT !.user_id = p.user_id + 1,
                                           !.exp = p.exp + ExpireSeconds])]

\* the answers of the provider before the account 101 is renamed
FirstAnswers(github_token) ==
  {a \in GithubResponses(github_token) :
     a.json # None => TheValue(a.json).login # "alice-dev"}

IssuedTokens == {s.response.access_token : s \in sessions}

Credentials ==
  {None, Some(NotAJwt)}
  \cup {Some(t) : t \in IssuedTokens}
  \cup {Some(Tampered(t)) : t \in IssuedTokens}

(***************************************************************************)
(* POST /api/submit                                                        *)
(***************************************************************************)
\* KernelSubmission with file_content declared Optional
Mut_KernelSubmissionValid(json) ==
  \A f \in RequiredFields \ {"file_content"} : json[f] # None

\* KernelSubmission: every field but overload is a required str
KernelSubmissionValid(json) ==
  \A f \in RequiredFields : json[f] # None

\* the NOT NULL columns of the submissions table that the INSERT binds
NotNullOk(user_id, json) ==
  /\ user_id # None
  /\ \A f \in RequiredFields : json[f] # None

\* the INSERT also binding status and evaluated_at
Mut_NewSubmissionRow(rowid, user_id, json, timestamp) ==
  [id |-> rowid, user_id |-> user_id,
   operation |-> TheValue(json.operation), overload |-> json.overload,
   dsl |-> TheValue(json.dsl), device |-> TheValue(json.device),
   file_name |-> TheValue(json.file_name),
   file_content |-> TheValue(json.file_content),
   timestamp |-> timestamp, status |-> "evaluated",
   evaluation_result |-> None, evaluated_at |-> Some(timestamp)]

\* the table with id a plain column the INSERT fills with 1
Mut_NewSubmissionRow_id(rowid, user_id, json, timestamp) ==
  [id |-> 1, user_id |-> user_id,
   operation |-> TheValue(json.operation), overload |-> json.overload,
   dsl |-> TheValue(json.dsl), device |-> TheValue(json.device),
   file_name |-> TheValue(json.file_name),
   file_content |-> TheValue(json.file_content),
   timestamp |-> timestamp, status |-> "pending",
   evaluation_result |-> None, evaluated_at |-> None]

\* the row of INSERT INTO submissions (user_id, ..., timestamp): status takes
\* its DEFAULT, evaluation_result and evaluated_at are NULL
NewSubmissionRow(rowid, user_id, json, timestamp) ==
  [id |-> rowid, user_id |-> user_id,
   operation |-> TheValue(json.operation), overload |-> json.overload,
   dsl |-> TheValue(json.dsl), device |-> TheValue(json.device),
   file_name |-> TheValue(json.file_name),
   file_content |-> TheValue(json.file_content),
   timestamp |-> timestamp, status |-> "pending",
   evaluation_result |-> None, evaluated_at |-> None]

\* submit_kernel: the dependency verify_token first, then the validation of
\* the body, then the INSERT and commit; an exception of the INSERT becomes
\* HTTPException(500, detail=str(e))
Submit(credentials, json) ==
  /\ Cardinality(submissions) < MaxSubmissions
  /\ \E user \in Authenticate(credentials, now) :
       LET request == [credentials |-> credentials, json |-> json]
           rowid == sqlite_sequence.submissions + 1
       IN
       IF user.status # 200
         THEN /\ last' = Completed("submit", request, user.status, user.detail, None)
              /\ UNCHANGED <<submissions, sqlite_sequence>>
       ELSE IF ~ KernelSubmissionValid(json)
         THEN /\ last' = Completed("submit", request, 422, "Field required", None)
              /\ UNCHANGED <<submissions, sqlite_sequence>>
       ELSE IF ~ NotNullOk(Some(TheValue(user.payload).user_id), json)
         THEN /\ last' = Completed("submit", request, 500, "NOT NULL constraint failed", None)
              /\ UNCHANGED <<submissions, sqlite_sequence>>
       ELSE /\ submissions' = submissions \cup
                 {NewSubmissionRow(rowid, TheValue(user.payload).user_id, json, now)}
            /\ sqlite_sequence' = [sqlite_sequence EXCEPT !.submissions = rowid]
            /\ last' = Completed("submit", request, 200, "",
                                 Some([success |-> TRUE, id |-> rowid]))
  /\ UNCHANGED <<users, now, sessions, pc, frame, probe, CONFIG_FILE>>

(***************************************************************************)
(* POST /api/submissions/{submission_id}/evaluate                          *)
(***************************************************************************)
\* the ids a request may name: those assigned so far and the next one, which
\* no row has
SubmissionIds == 1 .. (sqlite_sequence.submissions + 1)

\* the UPDATE flipping the status instead of setting it
Mut_UpdateEvaluated(table, submission_id, result, evaluated_at) ==
  { IF s.id = submission_id
      THEN [s EXCEPT !.status = IF s.status = "pending" THEN "evaluated" ELSE "pending",
                     !.evaluation_result = result,
                     !.evaluated_at = Some(evaluated_at)]
      ELSE s : s \in table }

\* the UPDATE stamping the row with its own submission time
Mut_UpdateEvaluated_stamp(table, submission_id, result, evaluated_at) ==
  { IF s.id = submission_id
      THEN [s EXCEPT !.status = "evaluated", !.evaluation_result = result,
                     !.evaluated_at = Some(s.timestamp)]
      ELSE s : s \in table }

\* the UPDATE with evaluation_result = COALESCE(evaluation_result, ?)
Mut_UpdateEvaluated_first_result(table, submission_id, result, evaluated_at) ==
  { IF s.id = submission_id
      THEN [s EXCEPT !.status = "evaluated",
                     !.evaluation_result =
                       IF s.evaluation_result # None THEN s.evaluation_result ELSE result,
                     !.evaluated_at = Some(evaluated_at)]
      ELSE s : s \in table }

\* the UPDATE without its WHERE clause
Mut_UpdateEvaluated_all(table, submission_id, result, evaluated_at) ==
  { [s EXCEPT !.status = "evaluated", !.evaluation_result = result,
              !.evaluated_at = Some(evaluated_at)] : s \in table }

\* UPDATE submissions SET status = 'evaluated', evaluation_result = ?,
\* evaluated_at = ? WHERE id = ?
UpdateEvaluated(table, submission_id, result, evaluated_at) ==
  { IF s.id = submission_id
      THEN [s EXCEPT !.status = "evaluated", !.evaluation_result = result,
                     !.evaluated_at = Some(evaluated_at)]
      ELSE s : s \in table }

\* the existence check answering with the id asked for
Mut_SelectSubmissionId(table, submission_id) == Some(submission_id)

\* SELECT id FROM submissions WHERE id = ?; fetchone()
SelectSubmissionId(table, submission_id) ==
  IF \E s \in table : s.id = submission_id THEN Some(submission_id) ELSE None

\* the three columns an evaluation writes, as a row holds them
Evaluation(row) ==
  [status |-> row.status, evaluation_result |-> row.evaluation_result,
   evaluated_at |-> row.evaluated_at]

\* mark_evaluated: the dependency verify_token first, then the SELECT (404
\* when the id is absent), then the UPDATE and commit
MarkEvaluated(credentials, submission_id, result) ==
  /\ \E user \in Authenticate(credentials, now) :
       LET request == [credentials |-> credentials, submission_id |-> submission_id,
                       result |-> result]
       IN
       IF user.status # 200
         THEN /\ last' = Completed("evaluate", request, user.status, user.detail, None)
              /\ UNCHANGED submissions
       ELSE IF SelectSubmissionId(submissions, submission_id) = None
         THEN /\ last' = Completed("evaluate", request, 404, "Submission not found", None)
              /\ UNCHANGED submissions
       ELSE /\ submissions' = UpdateEvaluated(submissions, submission_id, result, now)
            /\ last' = [Completed("evaluate", request, 200, "",
                                  Some([success |-> TRUE, id |-> submission_id]))
                          EXCEPT !.before =
                            {Evaluation(s) : s \in {x \in submissions : x.id = submission_id}}]
  /\ UNCHANGED <<users, sqlite_sequence, now, sessions, pc, frame, probe, CONFIG_FILE>>

\* The service with one worker process, as uvicorn.run(app) starts it.
Next ==
  \/ Tick(Times)
  \/ \E github_token \in GithubTokens :
       \E answer \in FirstAnswers(github_token) : AuthGithub(github_token, answer)
  \/ \E credentials \in Credentials, json \in Bodies : Submit(credentials, json)
  \/ \E credentials \in Credentials, submission_id \in SubmissionIds, result \in Results :
       MarkEvaluated(credentials, submission_id, result)

Spec == Init /\ [][Next]_vars

\* The auth exchange served by several worker processes over the one
\* submissions.db: the steps of two exchanges interleave.
NextAuth ==
  \/ Tick(Times)
  \/ \E w \in Workers, github_token \in GithubTokens :
       \E answer \in GithubResponses(github_token) : AuthBegin(w, github_token, answer)
  \/ \E w \in Workers : AuthFinish(w)

SpecAuth == Init /\ [][NextAuth]_vars

(***************************************************************************)
(* submit_kernel over every shape of body: one account, the clock at rest. *)
(***************************************************************************)
SubmitBodies == {GoodBody} \cup MissingBodies \cup EmptyBodies

NextSubmit ==
  \/ \E answer \in FirstAnswers("gho_alice") : AuthGithub("gho_alice", answer)
  \/ \E credentials \in Credentials, json \in SubmitBodies : Submit(credentials, json)

SpecSubmit == Init /\ [][NextSubmit]_vars

(***************************************************************************)
(* verify_token as a function of the credential and the clock: a           *)
(* credential is drawn, the clock runs, and the credential is verified     *)
(* again and again.  The credentials: a token create_access_token has made *)
(* at an instant of IssueTimes, that token altered, that payload signed    *)
(* with a key the server does not hold (or no longer holds), a string that *)
(* is no JWT, and no credential.                                           *)
(***************************************************************************)
IssueTimes == {0, 1}

ProbeTimes ==
  {0, 1, ExpireSeconds - 1, ExpireSeconds, ExpireSeconds + 1, ExpireSeconds + 2}

ProbeInputs ==
  LET Issued(t) == create_access_token(
                     [user_id |-> 1, username |-> "alice", provider |-> "github"], t)
  IN
  { [credentials |-> Some(c), issued_at |-> Some(t), outcome |-> None, at |-> None,
     expired_at |-> None] :
      t \in IssueTimes,
      c \in UNION { {Issued(i), Tampered(Issued(i)),
                     jwt_encode(TheValue(Issued(i).payload), "rotated-out-secret")} :
                    i \in IssueTimes } }
  \cup { [credentials |-> c, issued_at |-> None, outcome |-> None, at |-> None,
     expired_at |-> None] :
           c \in {None, Some(NotAJwt)} }

InitToken ==
  /\ InitDb
  /\ probe \in {p \in ProbeInputs :
                  \* issued_at is the instant the payload was made at
                  p.issued_at # None =>
                    TheValue(TheValue(p.credentials).payload).exp
                      \in {TheValue(p.issued_at) + ExpireSeconds,
                           TheValue(p.issued_at) + 2 * ExpireSeconds}}

\* a request presents the credential: Depends(verify_token)
ProbeVerify ==
  /\ \E outcome \in Authenticate(probe.credentials, now) :
       probe' = [probe EXCEPT !.outcome = Some(outcome), !.at = Some(now),
                              !.expired_at =
                                IF probe.expired_at = None
                                   /\ outcome.detail = "Token has expired"
                                  THEN Some(now) ELSE probe.expired_at]
  /\ UNCHANGED <<users, submissions, sqlite_sequence, now, sessions, pc, frame, last,
               CONFIG_FILE>>

NextToken ==
  \/ Tick(ProbeTimes)
  \/ ProbeVerify

SpecToken == InitToken /\ [][NextToken]_vars

(***************************************************************************)
(* The read side: GET /api/submissions, /api/submissions/pending and        *)
(* /api/submissions/{submission_id}.                                       *)
(***************************************************************************)
\* FROM submissions s JOIN users u without its ON clause
Mut_JoinUsers(subs, usrs) ==
  { s @@ [username |-> u.username, user_name |-> u.name] : s \in subs, u \in usrs }

\* SELECT s.*, u.username, u.name as user_name
\* FROM submissions s JOIN users u ON s.user_id = u.id, each row as dict(row)
JoinUsers(subs, usrs) ==
  { p[1] @@ [username |-> p[2].username, user_name |-> p[2].name] :
      p \in {q \in subs \X usrs : q[1].user_id = q[2].id} }

\* `if operation:` and the like: a filter that is None or the empty string
\* adds no condition to the query
FilterApplied(value) == value # None /\ value # Some("")

\* ORDER BY s.timestamp DESC | ASC.  The order of rows of equal timestamp is
\* undefined in SQLite: every arrangement in timestamp order is a result.
OrderByTimestamp(rows, desc) ==
  { seq \in [1 .. Cardinality(rows) -> rows] :
      /\ \A i, j \in DOMAIN seq : i # j => seq[i] # seq[j]
      /\ \A i, j \in DOMAIN seq : i < j =>
           IF desc THEN seq[i].timestamp >= seq[j].timestamp
                   ELSE seq[i].timestamp <= seq[j].timestamp }

\* LIMIT ?: the first `limit` rows; a negative limit is no upper bound
Limit(seq, limit) ==
  IF limit < 0 THEN seq
  ELSE SubSeq(seq, 1, IF limit < Len(seq) THEN limit ELSE Len(seq))

\* {"count": len(rows), "submissions": [dict(row) for row in rows]}
RowsResponse(rows) == [count |-> Len(rows), submissions |-> rows]

\* list_submissions: the responses the query may produce
list_submissions(operation, dsl, device, status, limit) ==
  LET rows == {r \in JoinUsers(submissions, users) :
                 /\ FilterApplied(operation) => r.operation = TheValue(operation)
                 /\ FilterApplied(dsl) => r.dsl = TheValue(dsl)
                 /\ FilterApplied(device) => r.device = TheValue(device)
                 /\ FilterApplied(status) => r.status = TheValue(status)}
  IN {RowsResponse(Limit(seq, limit)) : seq \in OrderByTimestamp(rows, TRUE)}

\* the query of get_pending_submissions without its WHERE clause
Mut_get_pending_submissions(limit) ==
  LET rows == JoinUsers(submissions, users)
  IN {RowsResponse(Limit(seq, limit)) : seq \in OrderByTimestamp(rows, FALSE)}

\* get_pending_submissions: the responses the query may produce
get_pending_submissions(limit) ==
  LET rows == {r \in JoinUsers(submissions, users) : r.status = "pending"}
  IN {RowsResponse(Limit(seq, limit)) : seq \in OrderByTimestamp(rows, FALSE)}

\* the query of get_submission with WHERE s.user_id = ?
Mut_get_submission(submission_id) ==
  {r \in JoinUsers(submissions, users) : r.user_id = submission_id}

\* get_submission: dict(row), or None where the handler raises the 404
get_submission(submission_id) ==
  {r \in JoinUsers(submissions, users) : r.id = submission_id}

\* GET /api/submissions?operation=&dsl=&device=&status=&limit=
ListSubmissions(operation, dsl, device, status, limit) ==
  /\ \E response \in list_submissions(operation, dsl, device, status, limit) :
       last' = Completed("list", None, 200, "", Some(response))
  /\ UNCHANGED <<users, submissions, sqlite_sequence, now, sessions, pc, frame, probe, CONFIG_FILE>>

\* GET /api/submissions/pending?limit=
GetPendingSubmissions(limit) ==
  /\ \E response \in get_pending_submissions(limit) :
       last' = Completed("pending", None, 200, "", Some(response))
  /\ UNCHANGED <<users, submissions, sqlite_sequence, now, sessions, pc, frame, probe, CONFIG_FILE>>

\* GET /api/submissions/{submission_id}
GetSubmission(submission_id) ==
  /\ last' = IF get_submission(submission_id) = None
               THEN Completed("get", None, 404, "Submission not found", None)
               ELSE Completed("get", None, 200, "", get_submission(submission_id))
  /\ UNCHANGED <<users, submissions, sqlite_sequence, now, sessions, pc, frame, probe, CONFIG_FILE>>

\* get_stats with the first query counting the users table
Mut_get_stats ==
  [total_submissions |-> Cardinality(users),
   pending_evaluations |-> Cardinality({s \in submissions : s.status = "pending"}),
   evaluated |-> Cardinality({s \in submissions : s.status = "evaluated"}),
   total_users |-> Cardinality(users)]

\* get_stats: the four COUNT(*) queries
get_stats ==
  [total_submissions |-> Cardinality(submissions),
   pending_evaluations |-> Cardinality({s \in submissions : s.status = "pending"}),
   evaluated |-> Cardinality({s \in submissions : s.status = "evaluated"}),
   total_users |-> Cardinality(users)]

\* GET /api/stats
GetStats ==
  /\ last' = Completed("stats", None, 200, "", Some(get_stats))
  /\ UNCHANGED <<users, submissions, sqlite_sequence, now, sessions, pc, frame, probe, CONFIG_FILE>>

\* `result: Optional[str] = None` of mark_evaluated is a parameter of a
\* scalar type that is not in the path: FastAPI takes it from the query
\* string; the handler declares no body and the JSON sent is not read
ResultParameter(query, json) == query

\* POST /api/submissions/{submission_id}/evaluate?result=..., with a JSON body
EvaluateRequest(credentials, submission_id, query, json) ==
  MarkEvaluated(credentials, submission_id, ResultParameter(query, json))

(***************************************************************************)
(* The service as its well-behaved clients drive it: two accounts, every   *)
(* request with a token the service has issued, and the three read         *)
(* requests.                                                               *)
(***************************************************************************)
MatmulBody ==
  [operation |-> Some("matmul"), overload |-> Some("fp16"), dsl |-> Some("triton"),
   device |-> Some("H100"), file_name |-> Some("matmul.py"),
   file_content |-> Some("def matmul(a, b): ...")]

QueryBodies == {GoodBody, MatmulBody}

\* the JSON bodies of an evaluate request: none, or {"result": "pass"}
EvaluateBodies == {None, Some([result |-> "pass"])}

\* the query strings of the list requests explored: no filter, one filter,
\* a filter with an empty value, several filters, and the limits around zero
NoFilters == [operation |-> None, dsl |-> None, device |-> None, status |-> None, limit |-> 20]

ListRequests ==
  { NoFilters,
    [NoFilters EXCEPT !.operation = Some("add")],
    [NoFilters EXCEPT !.operation = Some("")],
    [NoFilters EXCEPT !.dsl = Some("triton"), !.status = Some("evaluated")],
    [NoFilters EXCEPT !.device = Some("A100"), !.status = Some("pending"), !.limit = 1],
    [NoFilters EXCEPT !.limit = 0],
    [NoFilters EXCEPT !.limit = -1] }

Limits == {-1, 0, 1, 20}

NextQuery ==
  \/ Tick(Times)
  \/ \E github_token \in {"gho_alice", "gho_bob"} :
       \E answer \in {a \in FirstAnswers(github_token) : a.kind = "response"} :
         AuthGithub(github_token, answer)
  \/ \E token \in IssuedTokens, json \in QueryBodies : Submit(Some(token), json)
  \/ \E token \in IssuedTokens, submission_id \in SubmissionIds,
        query \in Results, json \in EvaluateBodies :
       /\ (query = None) # (json = None)
       /\ EvaluateRequest(Some(token), submission_id, query, json)
  \/ \E q \in ListRequests :
       ListSubmissions(q.operation, q.dsl, q.device, q.status, q.limit)
  \/ \E limit \in Limits : GetPendingSubmissions(limit)
  \/ \E submission_id \in SubmissionIds : GetSubmission(submission_id)

SpecQuery == Init /\ [][NextQuery]_vars

\* The list request over the tables the two accounts fill: submissions of
\* both, at both instants, the first of them evaluated or not.
NextList ==
  \/ Tick(Times)
  \/ \E github_token \in {"gho_alice", "gho_bob"} :
       \E answer \in {a \in FirstAnswers(github_token) : a.kind = "response"} :
         AuthGithub(github_token, answer)
  \/ \E token \in IssuedTokens, json \in QueryBodies : Submit(Some(token), json)
  \/ \E token \in IssuedTokens : EvaluateRequest(Some(token), 1, Some("pass"), None)
  \/ \E q \in ListRequests :
       ListSubmissions(q.operation, q.dsl, q.device, q.status, q.limit)

SpecList == Init /\ [][NextList]_vars

\* The evaluate request over the submissions of one account, within the
\* life of its token: with that token, with a string that is no token, or
\* with no Authorization header.
EvaluateTimes == {0, 1}

NextEvaluate ==
  \/ Tick(EvaluateTimes)
  \/ \E answer \in {a \in FirstAnswers("gho_alice") : a.kind = "response"} :
       AuthGithub("gho_alice", answer)
  \/ \E token \in IssuedTokens : Submit(Some(token), GoodBody)
  \/ \E credentials \in Credentials \ {Some(Tampered(t)) : t \in IssuedTokens},
        submission_id \in SubmissionIds, result \in Results :
       MarkEvaluated(credentials, submission_id, result)

SpecEvaluate == Init /\ [][NextEvaluate]_vars

(***************************************************************************)
(* The client: src/leaderboard/config.py and the commands of               *)
(* src/leaderboard/cli.py that read or write the stored token.             *)
(***************************************************************************)
\* json.dump(config, f): the text of an object, its members in the order of
\* the dict, each a key and a value
json_dump(config) == [i \in 1 .. Len(config) |-> <<config[i][1], config[i][2]>>]

\* json.load(f): the dict of the members of the text; of two members with
\* one key the later one stays
json_load(text) ==
  [key \in {text[i][1] : i \in DOMAIN text} |->
     text[CHOOSE i \in DOMAIN text :
            /\ text[i][1] = key
            /\ \A j \in DOMAIN text : text[j][1] = key => j <= i][2]]

\* config.get(key)
dict_get(config, key) == IF key \in DOMAIN config THEN Some(config[key]) ELSE None

\* save_token writing the token under the key "token"
Mut_save_token(token, username) ==
  Some(json_dump(<< <<"token", token>>, <<"username", username>> >>))

\* save_token(token, username): what CONFIG_FILE holds afterwards
save_token(token, username) ==
  Some(json_dump(<< <<"access_token", token>>, <<"username", username>> >>))

\* load_token(): None when the file does not exist, else the access_token
\* member of the file
load_token ==
  IF CONFIG_FILE = None THEN None
  ELSE dict_get(json_load(TheValue(CONFIG_FILE)), "access_token")

\* load_config(): None when the file does not exist, else the dict
load_config ==
  IF CONFIG_FILE = None THEN None ELSE Some(json_load(TheValue(CONFIG_FILE)))

\* clear_token(): the file is unlinked if it exists
clear_token == None

\* the response of the client's command completed last: it has sent no
\* request of its own
CliCompleted(op, detail) == Completed(op, None, 0, detail, None)

\* `leaderboard login`, from the response of a successful exchange on:
\* save_token(data["access_token"], data["user"]["username"])
CliLogin(session) ==
  /\ CONFIG_FILE' = save_token(session.response.access_token,
                               session.response.user.username)
  /\ last' = CliCompleted("login", "Successfully authenticated!")
  /\ UNCHANGED <<users, submissions, sqlite_sequence, now, sessions, pc, frame, probe>>

\* `leaderboard logout`: nothing to do when load_config() gives nothing,
\* else clear_token()
CliLogout ==
  /\ IF load_config = None
       THEN /\ last' = CliCompleted("logout", "You are not logged in")
            /\ UNCHANGED CONFIG_FILE
       ELSE /\ CONFIG_FILE' = clear_token
            /\ last' = CliCompleted("logout", "Successfully logged out")
  /\ UNCHANGED <<users, submissions, sqlite_sequence, now, sessions, pc, frame, probe>>

\* `leaderboard submit --file`: click.Abort() before any request when
\* load_token() gives no token, else POST /api/submit with
\* "Authorization: Bearer <token>".  The tokens save_token has stored are
\* those of the service, never the empty string.
CliSubmit(json) ==
  IF load_token = None
    THEN /\ last' = CliCompleted("submit aborted", "Error: Not authenticated")
         /\ UNCHANGED <<users, submissions, sqlite_sequence, now, sessions, pc, frame,
                        probe, CONFIG_FILE>>
    ELSE Submit(load_token, json)

\* One client, logging in with either of two accounts, logging out and
\* submitting, and the read requests anyone sends; the clock at rest.
NextClient ==
  \/ \E github_token \in {"gho_alice", "gho_bob"} :
       \E answer \in {a \in FirstAnswers(github_token) : a.kind = "response"} :
         AuthGithub(github_token, answer)
  \/ \E session \in sessions : CliLogin(session)
  \/ CliLogout
  \/ CliSubmit(GoodBody)
  \/ ListSubmissions(None, None, None, None, 20)
  \/ GetPendingSubmissions(20)
  \/ \E submission_id \in SubmissionIds : GetSubmission(submission_id)
  \/ GetStats

SpecClient == Init /\ [][NextClient]_vars

\* The read requests over the submissions of two accounts, within the life
\* of their tokens: get by id, the pending view and the stats, between
\* submits and evaluations.
NextRead ==
  \/ Tick(EvaluateTimes)
  \/ \E github_token \in {"gho_alice", "gho_bob"} :
       \E answer \in {a \in FirstAnswers(github_token) : a.kind = "response"} :
         AuthGithub(github_token, answer)
  \/ \E token \in IssuedTokens : Submit(Some(token), GoodBody)
  \/ \E token \in IssuedTokens, submission_id \in SubmissionIds :
       EvaluateRequest(Some(token), submission_id, Some("pass"), None)
  \/ \E submission_id \in SubmissionIds : GetSubmission(submission_id)
  \/ \E limit \in Limits : GetPendingSubmissions(limit)
  \/ GetStats

SpecRead == Init /\ [][NextRead]_vars

\* The stats over everything that fills the two tables: exchanges of
\* several workers, first and repeated, submits and evaluations with the
\* tokens issued, the clock at rest.
NextStats ==
  \/ \E w \in Workers, github_token \in {"gho_alice", "gho_bob"} :
       \E answer \in {a \in GithubResponses(github_token) : a.kind = "response"} :
         AuthBegin(w, github_token, answer)
  \/ \E w \in Workers : AuthFinish(w)
  \/ \E token \in IssuedTokens : Submit(Some(token), GoodBody)
  \/ \E token \in IssuedTokens, submission_id \in SubmissionIds :
       MarkEvaluated(Some(token), submission_id, Some("pass"))
  \/ GetStats

SpecStats == Init /\ [][NextStats]_vars

(***************************************************************************)
(* Properties.                                                             *)
(***************************************************************************)
SameIdentity(a, b) == a.provider = b.provider /\ a.provider_id = b.provider_id

\* C1: in every reachable state, also those reached by interleaving auth
\* exchanges for one external identity that both found no row, the users
\* table holds at most one row per (provider, provider_id).
C1_OneRowPerIdentity ==
  \A u1 \in users, u2 \in users : SameIdentity(u1, u2) => u1 = u2

\* two exchanges for one identity both found no row and both went on to
\* INSERT: one created the user, the other ran into the UNIQUE constraint
C1_Witness ==
  /\ last.op = "auth" /\ last.status = 500
  /\ last.detail = "UNIQUE constraint failed: users.provider, users.provider_id"
  /\ users # {}

\* C2: every successful auth exchange for an identity returned the same
\* internal user id, the id of the row the users table holds for that
\* identity now, and rows were inserted only by the first exchange of each
\* identity.
C2_StableUserId ==
  /\ \A s1 \in sessions, s2 \in sessions :
       SameIdentity(s1, s2) => s1.response.user.id = s2.response.user.id
  /\ \A s \in sessions :
       /\ \E u \in users : SameIdentity(u, s) /\ u.id = s.response.user.id
       /\ TheValue(s.response.access_token.payload).user_id = s.response.user.id
  /\ sqlite_sequence.users
       = Cardinality({<<s.provider, s.provider_id>> : s \in sessions})

\* one identity has authenticated twice, with different display fields
C2_Witness ==
  \E s1 \in sessions, s2 \in sessions :
    /\ SameIdentity(s1, s2)
    /\ s1.response.user.username # s2.response.user.username

\* C3: a submit call that appends a row appends exactly one, whose user_id
\* is the user_id of the session token presented, and after every step each
\* submission's user_id is the id of a row of the users table.
C3_Attributable ==
  [][ /\ \A s \in submissions' : \E u \in users' : u.id = s.user_id
      /\ submissions' # submissions =>
         \A credentials \in Credentials, json \in Bodies :
           Submit(credentials, json) =>
             /\ credentials # None
             /\ TheValue(credentials).payload # None
             /\ \E row \in submissions' :
                  /\ row \notin submissions
                  /\ submissions' = submissions \cup {row}
                  /\ row.user_id = TheValue(TheValue(credentials).payload).user_id
    ]_vars

\* two users have each submitted
C3_Witness ==
  \E s1 \in submissions, s2 \in submissions :
    /\ s1.user_id # s2.user_id
    /\ \E u1 \in users, u2 \in users : u1.id = s1.user_id /\ u2.id = s2.user_id

\* the three ways a bearer credential is no good at instant t
TokenMissing(credentials) == credentials = None

TokenInvalid(credentials) ==
  /\ credentials # None
  /\ \/ TheValue(credentials).payload = None
     \/ TheValue(credentials).sig
          # Some(Sign(SECRET_KEY, TheValue(TheValue(credentials).payload)))

TokenExpired(credentials, t) ==
  /\ credentials # None
  /\ TheValue(credentials).payload # None
  /\ TheValue(TheValue(credentials).payload).exp <= t

\* C4: a submit call whose bearer token is missing, has an invalid signature
\* or is expired is answered 401 and leaves the submissions table unchanged.
C4_RejectedUnauthorized ==
  [][ \A credentials \in Credentials, json \in Bodies :
        ( /\ Submit(credentials, json)
          /\ \/ TokenMissing(credentials)
             \/ TokenInvalid(credentials)
             \/ TokenExpired(credentials, now) ) =>
          (last'.status = 401 /\ submissions' = submissions)
    ]_vars

SevenDays == 7 * 24 * 60 * 60

\* C5: a session token verifies successfully if and only if the instant of
\* the verification is before its issue time + 7 days and its signature is
\* the server's secret's over its payload; what is no token never verifies.
C5_VerifiesIff ==
  probe.outcome # None =>
    LET outcome == TheValue(probe.outcome)
        at == TheValue(probe.at)
    IN IF probe.issued_at = None
         THEN outcome.status # 200
         ELSE LET token == TheValue(probe.credentials) IN
              (outcome.status = 200 /\ outcome.payload = token.payload)
                <=> ( /\ at < TheValue(probe.issued_at) + SevenDays
                      /\ token.sig = Some(Sign(SECRET_KEY, TheValue(token.payload))) )

\* a token was accepted one second before it expires, and one was refused
\* as expired at the instant it expires
C5_Witness ==
  /\ probe.outcome # None
  /\ probe.issued_at # None
  /\ \/ /\ TheValue(probe.outcome).status = 200
        /\ TheValue(probe.at) = TheValue(probe.issued_at) + SevenDays - 1
     \/ /\ TheValue(probe.outcome).detail = "Token has expired"
        /\ TheValue(probe.at) = TheValue(probe.issued_at) + SevenDays

\* C6: verifying a token whose signature does not verify or whose payload is
\* malformed ends with the invalid-token outcome, 401 "Invalid token".
C6_TamperedIsInvalid ==
  (probe.outcome # None /\ TokenInvalid(probe.credentials)) =>
    /\ TheValue(probe.outcome).status = 401
    /\ TheValue(probe.outcome).detail = "Invalid token"

\* C7: every successful submit call creates exactly one submission, with
\* status pending, evaluation_result null and evaluated_at null.
C7_CreatedPending ==
  [][ (last'.op = "submit" /\ last'.status = 200) =>
      \A credentials \in Credentials, json \in Bodies :
        Submit(credentials, json) =>
          \E row \in submissions' :
            /\ row \notin submissions
            /\ submissions' = submissions \cup {row}
            /\ \A s \in submissions : s.id # row.id
            /\ row.id = TheValue(last'.body).id
            /\ row.status = "pending"
            /\ row.evaluation_result = None
            /\ row.evaluated_at = None
    ]_vars

\* a submit has just succeeded and its row is in the table
C7_Witness ==
  /\ last.op = "submit" /\ last.status = 200
  /\ \E s \in submissions : s.id = TheValue(last.body).id /\ s.status = "pending"

\* C8 as stated: a submit call (with a good token) in which a required field
\* is the empty string fails with the validation error and appends no row.
C8_EmptyRejected ==
  [][ \A credentials \in Credentials, json \in SubmitBodies :
        ( /\ Submit(credentials, json)
          /\ \E user \in Authenticate(credentials, now) : user.status = 200
          /\ \E f \in RequiredFields : json[f] = Some("") ) =>
          (last'.status = 422 /\ submissions' = submissions)
    ]_vars

\* C8 as the code has it: with a good token, a required field that is absent
\* or null fails the validation (422) and appends no row, and a body whose
\* required fields are all present, empty or not, is accepted and appends a
\* row carrying them; a submit with an absent field appends no row whatever
\* the token.
C8_MissingRejected ==
  [][ \A credentials \in Credentials, json \in SubmitBodies :
        Submit(credentials, json) =>
          /\ (\E f \in RequiredFields : json[f] = None) => submissions' = submissions
          /\ (\E user \in Authenticate(credentials, now) : user.status = 200) =>
               IF \E f \in RequiredFields : json[f] = None
                 THEN last'.status = 422
                 ELSE /\ last'.status = 200
                      /\ \E row \in submissions' \ submissions :
                           \A f \in RequiredFields : Some(row[f]) = json[f]
    ]_vars

\* a body with an absent field has been refused, and in the same table is a
\* row with an empty required field
C8_Witness ==
  /\ last.op = "submit" /\ last.status = 422
  /\ \E s \in submissions : \E f \in RequiredFields : s[f] = ""

\* C9: status is pending or evaluated, and no step returns an evaluated
\* submission to pending or removes it.
C9_StatusMonotonic ==
  [][ /\ \A t \in submissions' : t.status \in {"pending", "evaluated"}
      /\ \A s \in submissions :
           /\ \E t \in submissions' : t.id = s.id
           /\ s.status = "evaluated" =>
                \A t \in submissions' : t.id = s.id => t.status = "evaluated"
    ]_vars

\* a submission evaluated at the start has been marked evaluated once more,
\* seven days later, and is still evaluated
C9_Witness ==
  /\ last.op = "evaluate" /\ last.status = 200
  /\ \E s \in submissions :
       /\ s.id = TheValue(last.body).id
       /\ s.status = "evaluated"
       /\ s.evaluated_at = Some(ExpireSeconds)
       /\ s.timestamp = 0
  /\ \E s \in submissions : s.status = "pending"

\* C10: for every submission, evaluation_result and evaluated_at are both
\* set or both unset.
C10_BothOrNeither ==
  \A s \in submissions : (s.evaluation_result = None) <=> (s.evaluated_at = None)

\* the bearer credential verifies at the instant of the request
Authenticated(credentials) ==
  \E user \in Authenticate(credentials, now) : user.status = 200

\* the ids of the submissions in the given status
IdsInStatus(status) == {s.id : s \in {x \in submissions : x.status = status}}

\* C11: an evaluate call with a good token and a result r on an existing
\* pending submission succeeds and leaves that row with status evaluated,
\* evaluation_result r and evaluated_at the time of the call.
C11_EvaluatedWithResult ==
  [][ (last'.op = "evaluate" /\ now' = now) =>
      \A result \in Results \ {None}, submission_id \in IdsInStatus("pending"),
         credentials \in {c \in Credentials : Authenticated(c)} :
        MarkEvaluated(credentials, submission_id, result) =>
          /\ last'.status = 200
          /\ \A s \in submissions : s.id = submission_id =>
               [s EXCEPT !.status = "evaluated", !.evaluation_result = result,
                         !.evaluated_at = Some(now)] \in submissions'
    ]_vars

\* a submission made at the start was pending until an evaluate call at a
\* later instant, which has just recorded its result and that instant
C11_Witness ==
  /\ last.op = "evaluate" /\ last.status = 200
  /\ last.before = {[status |-> "pending", evaluation_result |-> None, evaluated_at |-> None]}
  /\ now > 0
  /\ \E s \in submissions :
       /\ s.id = TheValue(last.body).id
       /\ s.timestamp = 0
       /\ s.status = "evaluated"
       /\ s.evaluation_result # None
       /\ s.evaluated_at = Some(now)

\* C12: an evaluate call with a good token on an already evaluated submission
\* succeeds, keeps status evaluated and replaces evaluation_result by the
\* result of this call; the same call made once more, at any instant, leaves
\* status and evaluation_result as this call left them.
C12_ReevaluateOverwrites ==
  [][ (last'.op = "evaluate" /\ now' = now) =>
      \A result \in Results, submission_id \in IdsInStatus("evaluated"),
         credentials \in {c \in Credentials : Authenticated(c)} :
        MarkEvaluated(credentials, submission_id, result) =>
          /\ last'.status = 200
          /\ \A t \in submissions' : t.id = submission_id =>
               /\ t.status = "evaluated"
               /\ t.evaluation_result = result
               /\ \A again \in EvaluateTimes :
                    \A t2 \in UpdateEvaluated(submissions', submission_id, result, again) :
                      t2.id = submission_id =>
                        /\ t2.status = t.status
                        /\ t2.evaluation_result = t.evaluation_result
    ]_vars

\* an evaluate call on an evaluated submission has just succeeded, and the
\* result in the row, which differs from what the row held, is this call's
C12_Witness ==
  /\ last.op = "evaluate" /\ last.status = 200
  /\ \E b \in last.before, s \in submissions :
       /\ s.id = TheValue(last.body).id
       /\ b.status = "evaluated"
       /\ s.status = "evaluated"
       /\ s.evaluation_result # None
       /\ b.evaluation_result # s.evaluation_result

\* C13: once evaluated_at of a submission is non-null, no step changes it
\* (it is set once, by the one evaluate call that mutates the submission).
C13_SetOnce ==
  [][ \A s \in submissions : s.evaluated_at # None =>
        \A t \in submissions' : t.id = s.id => t.evaluated_at = s.evaluated_at
    ]_vars

\* C14: an evaluate call naming an id no submission has leaves the
\* submissions and users tables as they were, and with a good token it is
\* answered 404 "Submission not found".
C14_NotFoundNoWrite ==
  [][ (last'.op = "evaluate" /\ now' = now) =>
      \A result \in Results, submission_id \in SubmissionIds \ {s.id : s \in submissions},
         credentials \in Credentials :
        MarkEvaluated(credentials, submission_id, result) =>
          /\ submissions' = submissions
          /\ users' = users
          /\ Authenticated(credentials) =>
               (last'.status = 404 /\ last'.detail = "Submission not found")
    ]_vars

\* an evaluate call has been answered 404 while the table holds a pending
\* and an evaluated submission
C14_Witness ==
  /\ last.op = "evaluate" /\ last.status = 404
  /\ \E s \in submissions : s.status = "pending"
  /\ \E s \in submissions : s.status = "evaluated"

FrameColumns ==
  {"id", "user_id", "operation", "overload", "dsl", "device", "file_name",
   "file_content", "timestamp"}

\* C15: no step removes a submission or changes its id, user_id, operation,
\* overload, dsl, device, file_name, file_content or timestamp, and an
\* evaluate call on id N adds no row and leaves every submission other than
\* N as it was.
C15_EvaluateFrame ==
  [][ /\ \A s \in submissions :
           \E t \in submissions' : \A col \in FrameColumns : t[col] = s[col]
      /\ (last'.op = "evaluate" /\ submissions' # submissions) =>
           \A credentials \in Credentials, submission_id \in SubmissionIds,
              result \in Results :
             MarkEvaluated(credentials, submission_id, result) =>
               /\ Cardinality(submissions') = Cardinality(submissions)
               /\ \A s \in submissions : s.id # submission_id => s \in submissions'
    ]_vars

\* an evaluate call has just marked one submission while the table holds
\* another one, made at another instant and still pending
C15_Witness ==
  /\ last.op = "evaluate" /\ last.status = 200
  /\ \E s \in submissions, t \in submissions :
       /\ s.id = TheValue(last.body).id
       /\ t.id # s.id
       /\ t.timestamp # s.timestamp
       /\ t.status = "pending"

FilterNames == {"operation", "dsl", "device", "status"}

SubmissionColumns == FrameColumns \cup {"status", "evaluation_result", "evaluated_at"}

\* the response to the list request q is right, the filters named in
\* `constraining` being those that constrain the result: count is the number
\* of rows; every row is a submission, column by column, that equals q in
\* each constraining filter, with the username of the user owning it; no
\* submission is listed twice; timestamps descend; and a submission that
\* qualifies is left out only when `limit` rows, all at least as recent,
\* are listed
ListedAs(q, response, constraining) ==
  LET rows == response.submissions
      Qualifies(x) == \A f \in constraining : x[f] = TheValue(q[f])
  IN /\ response.count = Len(rows)
     /\ \A i \in DOMAIN rows :
          \E x \in submissions :
            /\ Qualifies(x)
            /\ \A col \in SubmissionColumns : rows[i][col] = x[col]
            /\ \E u \in users : u.id = x.user_id /\ rows[i].username = u.username
     /\ \A i, j \in DOMAIN rows :
          i < j => (rows[i].id # rows[j].id /\ rows[i].timestamp >= rows[j].timestamp)
     /\ \A x \in submissions :
          (Qualifies(x) /\ \A i \in DOMAIN rows : rows[i].id # x.id) =>
            /\ q.limit >= 0
            /\ Len(rows) = q.limit
            /\ \A i \in DOMAIN rows : rows[i].timestamp >= x.timestamp

\* C16 as stated: in every state, every list request is answered with the submissions that
\* equal each filter the request supplies, the empty string included, in
\* descending order of timestamp, each with its owner's username.
C16_ListExact ==
  \A q \in ListRequests :
    \A response \in list_submissions(q.operation, q.dsl, q.device, q.status, q.limit) :
      ListedAs(q, response, {f \in FilterNames : q[f] # None})

\* C16 as the code has it: in every state, every list request is answered
\* as above, except that a filter constrains the result only when it is
\* supplied with a value other than the empty string; a filter that is
\* absent or empty imposes no constraint.
C16_ListFiltered ==
  \A q \in ListRequests :
    \A response \in list_submissions(q.operation, q.dsl, q.device, q.status, q.limit) :
      ListedAs(q, response, {f \in FilterNames : q[f] # None /\ q[f] # Some("")})

\* a list request has been answered with alice's "add" submission alone
\* while the table also holds a more recent "matmul" submission of bob: a
\* filter, not the limit, has kept the latter out
C16_Witness ==
  /\ last.op = "list" /\ last.status = 200
  /\ TheValue(last.body).count = 1
  /\ LET row == TheValue(last.body).submissions[1] IN
     /\ row.operation = "add" /\ row.username = "alice"
     /\ \E x \in submissions :
          /\ x.operation = "matmul" /\ x.timestamp > row.timestamp
          /\ \E u \in users : u.id = x.user_id /\ u.username = "bob"

\* C17: a list or pending request with limit n is answered with at most n
\* submissions (none when n is negative), and count is their number.
C17_LimitCaps ==
  [][ (last'.op \in {"list", "pending"} /\ now' = now) =>
      LET response == TheValue(last'.body)
          Capped(limit) == /\ response.count = Len(response.submissions)
                           /\ Len(response.submissions) <= (IF limit < 0 THEN 0 ELSE limit)
      IN /\ \A q \in ListRequests :
              ListSubmissions(q.operation, q.dsl, q.device, q.status, q.limit) =>
                Capped(q.limit)
         /\ \A limit \in Limits : GetPendingSubmissions(limit) => Capped(limit)
    ]_vars

\* C18: the pending request is answered with pending submissions only, in
\* the order of their creation: ids ascend along the response.
C18_PendingFifo ==
  [][ (last'.op = "pending" /\ now' = now) =>
      \A limit \in Limits :
        GetPendingSubmissions(limit) =>
          LET rows == TheValue(last'.body).submissions IN
          /\ \A i \in DOMAIN rows : rows[i].status = "pending"
          /\ \A i, j \in DOMAIN rows : i < j => rows[i].id < rows[j].id
    ]_vars

\* C19: an evaluate request for a pending submission N of user A, carrying
\* {"result": "pass"} as its JSON body and a good token of another user B,
\* is answered 200, and a get of N then shows status evaluated and
\* evaluation_result "pass".
C19_EvaluateByAnother ==
  [][ (last'.op = "evaluate" /\ now' = now) =>
      \A token \in {t \in IssuedTokens : Authenticated(Some(t))},
         submission_id \in IdsInStatus("pending") :
        ( /\ \A x \in submissions :
               x.id = submission_id => x.user_id # TheValue(token.payload).user_id
          /\ EvaluateRequest(Some(token), submission_id, None, Some([result |-> "pass"])) ) =>
          /\ last'.status = 200
          /\ get_submission(submission_id)' # None
          /\ \A row \in get_submission(submission_id)' :
               /\ row.status = "evaluated"
               /\ row.evaluation_result = Some("pass")
    ]_vars

\* C20: an auth exchange whose GitHub token the provider answers with a
\* status other than 200 is answered 401 with no token, and leaves the
\* users table, its id counter and the set of issued sessions as they were.
C20_RejectedCredential ==
  [][ (last'.op = "auth" /\ now' = now) =>
      \A github_token \in GithubTokens :
        \A answer \in {a \in FirstAnswers(github_token) :
                         a.kind = "response" /\ a.status_code # 200} :
          AuthGithub(github_token, answer) =>
            /\ last'.status = 401
            /\ last'.detail = "Invalid GitHub token"
            /\ last'.body = None
            /\ users' = users
            /\ sqlite_sequence' = sqlite_sequence
            /\ sessions' = sessions
    ]_vars

\* a revoked GitHub token has just been refused while the users table
\* holds the rows of two accounts
C20_Witness ==
  /\ last.op = "auth" /\ last.status = 401
  /\ last.detail = "Invalid GitHub token"
  /\ Cardinality(users) = 2
  /\ Cardinality(sessions) = 2

\* C21: an auth exchange in which the call to the provider cannot complete is
\* answered with a 5xx status, not the 401 of a refused credential, with a
\* message that is not the message of the failure underneath, and leaves the
\* users table, its id counter and the issued sessions as they were.
C21_UnavailableGeneric ==
  [][ (last'.op = "auth" /\ now' = now) =>
      \A github_token \in GithubTokens :
        \A answer \in {a \in FirstAnswers(github_token) : a.kind = "raised"} :
          AuthGithub(github_token, answer) =>
            /\ last'.status \in 500 .. 599
            /\ last'.body = None
            /\ last'.detail # verify_github_token(answer).detail
            /\ users' = users
            /\ sqlite_sequence' = sqlite_sequence
            /\ sessions' = sessions
    ]_vars

\* C22: a get of an id no submission has is answered 404 "Submission not
\* found"; a get of an existing id is answered 200 with that submission,
\* column by column as the table holds it now: file_content, status,
\* evaluation_result and evaluated_at included.
C22_GetById ==
  [][ (last'.op = "get" /\ now' = now) =>
      \A submission_id \in SubmissionIds :
        GetSubmission(submission_id) =>
          IF \A x \in submissions : x.id # submission_id
            THEN /\ last'.status = 404
                 /\ last'.detail = "Submission not found"
                 /\ last'.body = None
            ELSE /\ last'.status = 200
                 /\ Cardinality(last'.body) = 1
                 /\ \A row \in last'.body : \A x \in submissions' :
                      x.id = submission_id =>
                        \A col \in SubmissionColumns : row[col] = x[col]
    ]_vars

\* a get has just shown the second submission, evaluated with a result, with
\* its file content
C22_Witness ==
  /\ last.op = "get" /\ last.status = 200
  /\ \E row \in last.body :
       /\ row.id = 2
       /\ row.file_content = TheValue(GoodBody.file_content)
       /\ row.status = "evaluated"
       /\ row.evaluation_result = Some("pass")
       /\ row.evaluated_at # None

\* C23: every auth exchange whose credential the provider has accepted is
\* answered 200 with a token carrying the id of the one users row of that
\* identity, also when another first exchange of the same identity ran
\* between its SELECT and its INSERT.
C23_AcceptedSucceeds ==
  [][ \A w \in Workers :
        AuthFinish(w) =>
          /\ last'.op = "auth"
          /\ last'.status = 200
          /\ \A u \in users' :
               SameIdentity(u, TheValue(frame[w].user_info)) =>
                 /\ TheValue(last'.body).user.id = u.id
                 /\ TheValue(TheValue(last'.body).access_token.payload).user_id = u.id
    ]_vars

\* C24: a successful auth exchange of an identity that has a users row leaves
\* that row with the username, name, email and avatar_url of this
\* verification and with its id, provider, provider_id and created_at as
\* they were, adds no row and leaves every other row as it was.
C24_ReauthFrame ==
  [][ \A w \in Workers :
        ( /\ AuthFinish(w)
          /\ last'.status = 200
          /\ \E u \in users : SameIdentity(u, TheValue(frame[w].user_info)) ) =>
          LET user_info == TheValue(frame[w].user_info) IN
          /\ Cardinality(users') = Cardinality(users)
          /\ \A u \in users :
               IF SameIdentity(u, user_info)
                 THEN [u EXCEPT !.username = user_info.username,
                                !.name = user_info.name,
                                !.email = user_info.email,
                                !.avatar_url = user_info.avatar_url] \in users'
                 ELSE u \in users'
    ]_vars

\* the account 101, renamed since its first login, has just authenticated
\* again and its row, made at the start, carries the new username and email,
\* beside the row of another account
C24_Witness ==
  /\ last.op = "auth" /\ last.status = 200
  /\ TheValue(last.body).user.username = "alice-dev"
  /\ now > 0
  /\ \E u \in users :
       /\ u.provider_id = "101" /\ u.username = "alice-dev"
       /\ u.email = Some("alice@example.org") /\ u.created_at = 0
       /\ u.id = TheValue(last.body).user.id
  /\ \E s \in sessions : s.provider_id = "101" /\ s.response.user.username = "alice"
  /\ \E u \in users : u.provider_id = "202"

\* C25: no two submissions share an id, and a successful submit returns an
\* id greater than the id of every submission in the table and than every
\* id assigned before, the id of the one row it adds, while every row there
\* was keeps its id.
C25_IdsIncrease ==
  [][ /\ \A s \in submissions', t \in submissions' : s.id = t.id => s = t
      /\ (last'.op = "submit" /\ last'.status = 200 /\ submissions' # submissions) =>
           LET id == TheValue(last'.body).id IN
           /\ id > sqlite_sequence.submissions
           /\ \A s \in submissions : s.id < id /\ (\E t \in submissions' : t.id = s.id)
           /\ \E row \in submissions' :
                row.id = id /\ submissions' = submissions \cup {row}
    ]_vars

\* the second submit, by another user than the first, has just been answered
\* with id 2
C25_Witness ==
  /\ last.op = "submit" /\ last.status = 200
  /\ TheValue(last.body).id = 2
  /\ \E s \in submissions, t \in submissions :
       s.id = 1 /\ t.id = 2 /\ s.user_id # t.user_id

\* C26: once a verification of a token has failed as expired, every later
\* verification of that token fails as expired, and a token signed by the
\* server whose expiry has passed is refused as expired (401 "Token has
\* expired"), not as invalid.
C26_ExpiryTerminal ==
  [][ ProbeVerify =>
        LET Expired(outcome) ==
              outcome.status = 401 /\ outcome.detail = "Token has expired"
        IN
        /\ probe.expired_at # None => Expired(TheValue(probe'.outcome))
        /\ (~ TokenInvalid(probe.credentials) /\ TokenExpired(probe.credentials, now))
             => Expired(TheValue(probe'.outcome))
    ]_vars

\* a token refused as expired at the instant of its expiry has been
\* verified again later and refused as expired again
C26_Witness ==
  /\ probe.expired_at # None /\ probe.issued_at # None
  /\ TheValue(probe.expired_at) = TheValue(probe.issued_at) + SevenDays
  /\ TheValue(probe.at) > TheValue(probe.expired_at)
  /\ TheValue(probe.outcome).detail = "Token has expired"

\* C27: an evaluate call whose bearer credential does not verify is answered
\* 401, whether or not the id exists, and leaves the submissions table as it
\* was; an evaluate call with a credential that verifies, of the owner or of
\* anyone else, on an existing submission is answered 200 and leaves it
\* evaluated.
C27_EvaluateUnauthorized ==
  [][ (last'.op = "evaluate" /\ now' = now) =>
      \A credentials \in Credentials, submission_id \in SubmissionIds,
         result \in Results :
        MarkEvaluated(credentials, submission_id, result) =>
          IF ~ Authenticated(credentials)
            THEN last'.status = 401 /\ submissions' = submissions
            ELSE (\E x \in submissions : x.id = submission_id) =>
                   /\ last'.status = 200
                   /\ \A t \in submissions' :
                        t.id = submission_id => t.status = "evaluated"
    ]_vars

\* C28: the pending view, asked with a limit that is at least the number of
\* pending submissions, lists every submission no evaluate call has marked
\* yet, and whatever the limit it lists no submission that has been marked
\* evaluated.
C28_PendingView ==
  [][ (last'.op = "pending" /\ now' = now) =>
      \A limit \in Limits :
        GetPendingSubmissions(limit) =>
          LET rows == TheValue(last'.body).submissions
              listed == {rows[i].id : i \in DOMAIN rows}
          IN
          /\ \A x \in submissions : x.evaluated_at # None => x.id \notin listed
          /\ limit >= Cardinality(IdsInStatus("pending")) =>
               \A x \in submissions : x.evaluated_at = None => x.id \in listed
    ]_vars

\* the pending view has just listed the second submission alone, the first
\* one having been marked evaluated
C28_Witness ==
  /\ last.op = "pending" /\ last.status = 200
  /\ TheValue(last.body).count = 1
  /\ TheValue(last.body).submissions[1].id = 2
  /\ \E x \in submissions : x.id = 1 /\ x.status = "evaluated"

\* C29: in every state the stats have total_submissions = pending_evaluations
\* + evaluated and total_users = the number of identities that have
\* authenticated successfully; total_submissions is the number of ids
\* assigned, and a step adds one to it when it is a successful submit and
\* leaves it alone otherwise.
C29_Stats ==
  [][ LET stats == get_stats'
          submitted == /\ last'.status = 200
                       /\ \E token \in IssuedTokens : Submit(Some(token), GoodBody)
      IN
      /\ stats.total_submissions = stats.pending_evaluations + stats.evaluated
      /\ stats.total_users
           = Cardinality({<<s.provider, s.provider_id>> : s \in sessions'})
      /\ stats.total_submissions = sqlite_sequence'.submissions
      /\ stats.total_submissions
           = get_stats.total_submissions + (IF submitted THEN 1 ELSE 0)
    ]_vars

\* the stats have just been answered: two submissions, one of them
\* evaluated, and one user, who has authenticated twice
C29_Witness ==
  /\ last.op = "stats" /\ last.status = 200
  /\ TheValue(last.body) = [total_submissions |-> 2, pending_evaluations |-> 1,
                            evaluated |-> 1, total_users |-> 1]
  /\ Cardinality(sessions) = 2

\* the four read requests as steps
ReadStep ==
  \/ ListSubmissions(None, None, None, None, 20)
  \/ GetPendingSubmissions(20)
  \/ \E submission_id \in SubmissionIds : GetSubmission(submission_id)
  \/ GetStats

\* C30: a list, pending, get or stats request is answered without a
\* session token (never 401 or 403) and leaves the users and submissions
\* tables as they were.  On the client: after logout has cleared the token
\* load_token gives None; while it does, the submit command aborts and no
\* request reaches the service; only login and logout write the file; and
\* after login has saved a token load_token gives exactly that token.
C30_ReadsAndClient ==
  [][ /\ ReadStep =>
           /\ last'.status \notin {401, 403}
           /\ users' = users /\ submissions' = submissions
           /\ sqlite_sequence' = sqlite_sequence
      /\ (CliLogout /\ CONFIG_FILE # None) => load_token' = None
      /\ (load_token = None /\ CliSubmit(GoodBody)) =>
           /\ last'.op = "submit aborted"
           /\ users' = users /\ submissions' = submissions
           /\ sqlite_sequence' = sqlite_sequence
           /\ load_token' = None
      /\ CONFIG_FILE' # CONFIG_FILE =>
           (CliLogout \/ \E session \in sessions : CliLogin(session))
      /\ \A session \in sessions :
           CliLogin(session) => load_token' = Some(session.response.access_token)
    ]_vars

\* the client has submitted with a saved token, logged out, and has just had
\* a submit aborted: the file is gone, load_token gives None and the table
\* holds the one earlier submission
C30_Witness ==
  /\ last.op = "submit aborted"
  /\ CONFIG_FILE = None /\ load_token = None
  /\ Cardinality(submissions) = 1
  /\ sqlite_sequence.submissions = 1

====
